---- MODULE Spec2Model ----
(***************************************************************************)
(* Page navigation and animation state machine of the book portfolio      *)
(* (class BookPortfolio, src/app.js).  One state per point between two    *)
(* event-loop tasks: an input handler or a timer callback runs to         *)
(* completion in one step.                                                *)
(***************************************************************************)
EXTENDS Integers, Sequences, FiniteSets, TLC

(* ---- bounds of the model ---------------------------------------------- *)
\* largest number of .page elements the startup query may find
MaxPages == 3
\* .reveal-item fragments on every page
FragsPerPage == 2
\* an input that schedules a timer is issued only with fewer pending timers
MaxPending == 2

(* ---- program constants ------------------------------------------------ *)
FlipMs == 800
JumpRevealMs == 400
CelebrateMs == 500
RevealBaseMs == 50
RevealStrideMs == 100
\* handleSwipe: const threshold
SwipeThreshold == 50
\* the value parseInt gives for a data-page that is no integer
NaN == -1000

\* stands for 'no page' in a call record or a timer
NoPage == 0 - 1

VARIABLES
    totalPages,        \* this.totalPages = this.pages.length
    currentPage,       \* this.currentPage
    isAnimating,       \* this.isAnimating
    animationsEnabled, \* this.animationsEnabled
    stored,            \* localStorage['portfolio_animations']
    flipped,           \* indices of pages whose classList holds 'flipped'
    flipping,          \* ... 'flipping'
    unflipping,        \* ... 'unflipping'
    view,              \* buttons, indicator, progress bar, live region
    tocActive,         \* indices of .toc-item elements holding 'active'
    celebrationShown,  \* this.celebrationShown
    badgeRevealed,     \* #completionBadge holds 'revealed'
    celebrations,      \* celebration particle bursts spawned so far
    revealed,          \* <<page, i>> of .reveal-item elements holding 'revealed'
    timers,            \* pending setTimeout callbacks, in firing order
    loaded,            \* the loading splash has finished
    last,              \* the handler or callback that ran last, and its outputs
    trip,              \* observer of a nextPage/prevPage round trip
    tocOpen,           \* #tocSidebar holds 'open'
    input,             \* the input event dispatched last, and what it was turned into
    soundEnabled       \* this.soundEnabled

vars == <<totalPages, currentPage, isAnimating, animationsEnabled, stored,
          flipped, flipping, unflipping, view, tocActive, celebrationShown,
          badgeRevealed, celebrations, revealed, timers, loaded, last, trip,
          tocOpen, input, soundEnabled>>

\* everything a navigation request can touch, without the record of the call
navState == <<totalPages, currentPage, isAnimating, animationsEnabled, stored,
              flipped, flipping, unflipping, view, tocActive, celebrationShown,
              badgeRevealed, celebrations, revealed, timers, loaded>>

(* ---- JavaScript number semantics (a comparison with NaN is false) ------ *)
IsNum(x) == x # NaN
Lt(a, b) == IsNum(a) /\ IsNum(b) /\ a < b
Le(a, b) == IsNum(a) /\ IsNum(b) /\ a <= b
Gt(a, b) == IsNum(a) /\ IsNum(b) /\ a > b
Ge(a, b) == IsNum(a) /\ IsNum(b) /\ a >= b
StrictEq(a, b) == IsNum(a) /\ IsNum(b) /\ a = b
Plus(a, k) == IF IsNum(a) THEN a + k ELSE NaN

Pages == 0 .. (totalPages - 1)
\* this.pages[i] is an element (not undefined)
HasPage(i) == IsNum(i) /\ i \in Pages
Frags == 0 .. (FragsPerPage - 1)

(* ---- timers ------------------------------------------------------------ *)
\* A pending setTimeout callback.  Elapsed time is not a variable: timers is the
\* order in which the pending callbacks will run, and a callback may run late
\* but never out of that order.
Timer(kind, delay, page, item) ==
    [kind |-> kind, delay |-> delay, page |-> page, item |-> item]

InsertAt(q, p, t) == SubSeq(q, 1, p) \o <<t>> \o SubSeq(q, p + 1, Len(q))

\* setTimeout(t): a pending callback registered with a delay no longer than
\* t's is due no later than t and runs before it; one registered with a longer
\* delay runs before or after t, by the time that has passed since
Insertions(q, t) ==
    LET sooner == {i \in 1 .. Len(q) : q[i].delay <= t.delay}
        lo == IF sooner = {} THEN 0 ELSE CHOOSE i \in sooner : \A j \in sooner : j <= i
    IN {InsertAt(q, p, t) : p \in lo .. Len(q)}

\* index of the first timer of ts with the least delay
Soonest(ts) ==
    CHOOSE i \in 1 .. Len(ts) :
        /\ \A j \in 1 .. Len(ts) : ts[i].delay <= ts[j].delay
        /\ \A j \in 1 .. (i - 1) : ts[j].delay > ts[i].delay

RemoveAt(ts, i) == SubSeq(ts, 1, i - 1) \o SubSeq(ts, i + 1, Len(ts))

\* the queues that may result when one handler registers the timers ts: timers
\* registered at the same instant run by delay, then by registration
RECURSIVE ScheduleAll(_, _)
ScheduleAll(Q, ts) ==
    IF ts = <<>> THEN Q
    ELSE LET i == Soonest(ts)
         IN ScheduleAll(UNION {Insertions(q, ts[i]) : q \in Q}, RemoveAt(ts, i))

Due(kind) == timers # <<>> /\ Head(timers).kind = kind

Room == Len(timers) < MaxPending

(* ---- record of the last call ------------------------------------------- *)
\* op: the handler or callback; arg: its argument (the target of goToPage, the
\* page a callback's closure holds); from: currentPage when it started; ok:
\* it passed its guards; fx: the fire-and-forget effects it triggered; rev: the
\* page it handed to revealPageContent
Call(op, arg, ok, fx, rev) ==
    [op |-> op, arg |-> arg, from |-> currentPage, ok |-> ok, fx |-> fx, rev |-> rev]

Requests == {"nextPage", "prevPage", "goToPage"}

(* ---- record of the last input event ------------------------------------ *)
\* kind: the listener of bindEvents that ran; what: the key, or where the
\* pointer was; a, b: the numbers of the event; cmds: the navigation commands
\* the listener issued; was: the animation preference (flag, stored value) and
\* the state of the sidebar the event found
Event(kind, what, a, b, cmds) ==
    [kind |-> kind, what |-> what, a |-> a, b |-> b, cmds |-> cmds,
     was |-> [enabled |-> animationsEnabled, stored |-> stored, open |-> tocOpen]]

NoInput == [kind |-> "none", what |-> "", a |-> 0, b |-> 0, cmds |-> <<>>,
            was |-> <<>>]

\* a step that is no input event: a timer callback, the end of the splash
Quiet == input' = NoInput /\ tocOpen' = tocOpen /\ soundEnabled' = soundEnabled

\* the observer of a round trip: off, or the phase reached and the state the
\* trip started from
TripOff == [phase |-> "off", k |-> NoPage, flipped |-> {}, view |-> <<>>, toc |-> {}]

TripPhase(ph) == [trip EXCEPT !.phase = ph]

(* ---- dependent views ---------------------------------------------------- *)
\* pageNames[i] as initPageNames fills it for a page without .chapter-title
\* and .about-title: 'Cover' for the first page, 'Chapter i' for the others (a
\* title text takes the same place)
PageName(i) == IF i = 0 THEN <<"Cover">> ELSE <<"Chapter", i>>

Label_Fallback(cp) == <<"Page", cp>>

\* the text of the page indicator: pageNames[cp] || `Page ${cp}`
Label(cp) == IF HasPage(cp) THEN PageName(cp) ELSE <<"Page", cp>>

\* the text of the live region: `Now viewing: ${pageNames[cp] || `Page ${cp + 1}`}`
Announcement(cp) ==
    <<"Now viewing", IF HasPage(cp) THEN PageName(cp) ELSE <<"Page", Plus(cp, 1)>>>>

NavView_OffByOne(cp, old) ==
    [prevDisabled |-> Le(cp, 0),
     nextDisabled |-> Ge(cp, totalPages),
     indicator    |-> Label(cp),
     progress     |-> IF IsNum(cp) THEN cp + 1 ELSE old.progress,
     announced    |-> Announcement(cp)]

\* updateNavigation: buttons, indicator, updateBookProgress, announcePageChange.
\* indicator and announced hold the texts written; progress holds
\* currentPage + 1 (the bar shows it over totalPages); a width of 'NaN%' is no
\* CSS value and leaves the bar as it was
NavView(cp, old) ==
    [prevDisabled |-> Le(cp, 0),
     nextDisabled |-> Ge(cp, totalPages - 1),
     indicator    |-> Label(cp),
     progress     |-> IF IsNum(cp) THEN cp + 1 ELSE old.progress,
     announced    |-> Announcement(cp)]

Completes_EveryArrival(cp) == StrictEq(cp, totalPages - 1)

\* checkCompletion: the first arrival on the last page arms the celebration
Completes(cp) == StrictEq(cp, totalPages - 1) /\ ~celebrationShown

ShownAfter(cp) == celebrationShown \/ StrictEq(cp, totalPages - 1)

\* the timer checkCompletion registers
CompletionTimers(cp) ==
    IF Completes(cp) THEN <<Timer("celebrate", CelebrateMs, NoPage, 0)>> ELSE <<>>

TocAfter_Additive(cp) == tocActive \cup {i \in Pages : StrictEq(i, cp)}

\* updateTOC: toggle 'active' on the entry whose index is currentPage
TocAfter(cp) == {i \in Pages : StrictEq(i, cp)}

(* ---- reveal sequencer --------------------------------------------------- *)
RevealTimers_Reversed(p) ==
    [k \in 1 .. FragsPerPage |->
        Timer("revealItem", RevealBaseMs + (FragsPerPage - k) * RevealStrideMs, p, k - 1)]

RevealTimers_SkipFirst(p) ==
    [k \in 1 .. (FragsPerPage - 1) |->
        Timer("revealItem", RevealBaseMs + k * RevealStrideMs, p, k)]

RevealTimers(p) ==
    [k \in 1 .. FragsPerPage |->
        Timer("revealItem", RevealBaseMs + (k - 1) * RevealStrideMs, p, k - 1)]

\* revealPageContent(p): clear the marker on every fragment of page p, then
\* schedule one re-mark per fragment; nothing when this.pages[p] is undefined
RevealedAfter(p) ==
    IF HasPage(p) THEN revealed \ {<<p, i>> : i \in Frags} ELSE revealed

RevealTimersOf(p) == IF HasPage(p) THEN RevealTimers(p) ELSE <<>>

(* ---- startup ------------------------------------------------------------ *)
\* constructor and init(): restoreAnimationPreference, then updateNavigation
Init ==
    /\ totalPages \in 1 .. MaxPages
    /\ stored \in {"absent", "true", "false"}
    /\ animationsEnabled = (IF stored = "absent" THEN TRUE ELSE stored = "true")
    /\ currentPage = 0
    /\ isAnimating = FALSE
    /\ flipped = {}
    /\ flipping = {}
    /\ unflipping = {}
    /\ view = [prevDisabled |-> TRUE,
               nextDisabled |-> (0 >= totalPages - 1),
               indicator    |-> Label(0),
               progress     |-> 1,
               announced    |-> Announcement(0)]
    /\ tocActive = {0}
    /\ celebrationShown = (totalPages = 1)
    /\ badgeRevealed = FALSE
    /\ celebrations = 0
    /\ revealed = {}
    /\ timers = (IF totalPages = 1
                 THEN <<Timer("celebrate", CelebrateMs, NoPage, 0)>>
                 ELSE <<>>)
    /\ loaded = FALSE
    /\ last = [op |-> "init", arg |-> NoPage, from |-> 0, ok |-> TRUE, fx |-> {},
               rev |-> NoPage]
    /\ trip = TripOff
    /\ tocOpen = FALSE
    /\ input = NoInput
    /\ soundEnabled = FALSE

\* the splash has finished: revealPageContent(0)
LoaderDone ==
    /\ Quiet
    /\ ~loaded
    /\ loaded' = TRUE
    /\ revealed' = RevealedAfter(0)
    /\ timers' \in ScheduleAll({timers}, RevealTimersOf(0))
    /\ last' = Call("loaderDone", NoPage, TRUE, {}, 0)
    /\ UNCHANGED <<trip, totalPages, currentPage, isAnimating, animationsEnabled, stored,
                   flipped, flipping, unflipping, view, tocActive,
                   celebrationShown, badgeRevealed, celebrations>>

(* ---- navigation requests ------------------------------------------------ *)
\* a request that returns at its guard
Rejected(op, arg) ==
    /\ last' = Call(op, arg, FALSE, {}, NoPage)
    /\ UNCHANGED <<navState, trip>>

DustFx_Always == {"dust"}

\* createDustParticles spawns only with animations enabled
DustFx == IF animationsEnabled THEN {"dust"} ELSE {}

FlipDelay == IF animationsEnabled THEN FlipMs ELSE 0

\* a request that throws a TypeError on this.pages[NaN].classList, after
\* isAnimating was set
Thrown(op, cp) ==
    /\ isAnimating' = TRUE
    /\ currentPage' = cp
    /\ last' = Call(op, NoPage, TRUE, {"TypeError"}, NoPage)
    /\ trip' = TripOff
    /\ UNCHANGED <<totalPages, animationsEnabled, stored, flipped, flipping,
                   unflipping, view, tocActive, celebrationShown, badgeRevealed,
                   celebrations, revealed, timers, loaded>>

(* ---- the transition sound ----------------------------------------------- *)
\* what one call of playPageFlipSound may come to: "none" when the sound is
\* disabled or the document has no #pageFlipSound element, else play() is
\* called and its promise is fulfilled ("played") or rejected ("rejected")
playPageFlipSound ==
    IF soundEnabled THEN {"none", "played", "rejected"} ELSE {"none"}

\* the effects a call with that outcome leaves in the record of the request
SoundFx(fate) ==
    IF fate = "none" THEN {}
    ELSE IF fate = "played" THEN {"sound"}
    ELSE {"sound", "soundRejected"}

SoundThrows_NoCatch(fate) == fate = "rejected"

\* the rejection reaches the caller of playPageFlipSound: never, the handler
\* passed to catch() takes it
SoundThrows(fate) == FALSE

\* nextPage or prevPage left by an exception of playPageFlipSound, after
\* isAnimating was set
FlipAborted(op, fate) ==
    /\ isAnimating' = TRUE
    /\ last' = Call(op, NoPage, TRUE, SoundFx(fate) \cup {"Error"}, NoPage)
    /\ trip' = TripOff
    /\ UNCHANGED <<totalPages, currentPage, animationsEnabled, stored, flipped,
                   flipping, unflipping, view, tocActive, celebrationShown,
                   badgeRevealed, celebrations, revealed, timers, loaded>>

Incremented_Twice(cp) == Plus(cp, 2)

\* this.currentPage++ and this.currentPage--
Incremented(cp) == Plus(cp, 1)

Decremented_Forgotten(cp) == cp

Decremented(cp) == Plus(cp, 0 - 1)

\* the guards of the three entry points
NextBlocked_NoLastPage == isAnimating

NextBlocked_NoAnimating == Ge(currentPage, totalPages - 1)

NextBlocked == isAnimating \/ Ge(currentPage, totalPages - 1)

PrevBlocked_NoFirstPage == isAnimating

PrevBlocked_NoAnimating == Le(currentPage, 0)

PrevBlocked == isAnimating \/ Le(currentPage, 0)

JumpBlocked_NoAnimating(n) == StrictEq(n, currentPage)

JumpBlocked(n) == isAnimating \/ StrictEq(n, currentPage)

JumpInvalid(n) == Lt(n, 0) \/ Ge(n, totalPages)

nextPage ==
    IF NextBlocked
    THEN Rejected("nextPage", NoPage)
    ELSE IF ~HasPage(currentPage)
    THEN Thrown("nextPage", currentPage)
    ELSE \E fate \in playPageFlipSound :
         IF SoundThrows(fate)
         THEN FlipAborted("nextPage", fate)
         ELSE
         /\ Room
         /\ isAnimating' = TRUE
         /\ flipping' = flipping \cup {currentPage}
         /\ flipped' = flipped \cup {currentPage}
         /\ timers' \in ScheduleAll({timers},
                                    <<Timer("nextDone", FlipDelay, currentPage, 0)>>)
         /\ last' = Call("nextPage", NoPage, TRUE, SoundFx(fate) \cup DustFx, NoPage)
         /\ trip' = [phase |-> "forward", k |-> currentPage, flipped |-> flipped,
                      view |-> view, toc |-> tocActive]
         /\ UNCHANGED <<totalPages, currentPage, animationsEnabled, stored,
                        unflipping, view, tocActive, celebrationShown,
                        badgeRevealed, celebrations, revealed, loaded>>

\* the callback nextPage scheduled
nextPageDone ==
    /\ Quiet
    /\ Due("nextDone")
    /\ LET t == Head(timers)
           cp == Incremented(currentPage)
       IN /\ flipping' = flipping \ {t.page}
          /\ currentPage' = cp
          /\ view' = NavView(cp, view)
          /\ celebrationShown' = ShownAfter(cp)
          /\ tocActive' = TocAfter(cp)
          /\ revealed' = RevealedAfter(cp)
          /\ timers' \in ScheduleAll({Tail(timers)},
                                     CompletionTimers(cp) \o RevealTimersOf(cp))
          /\ isAnimating' = FALSE
          /\ last' = Call("nextPageDone", t.page, TRUE, {}, cp)
          /\ trip' = IF trip.phase = "forward" THEN TripPhase("there") ELSE TripOff
    /\ UNCHANGED <<totalPages, animationsEnabled, stored, flipped, unflipping,
                   badgeRevealed, celebrations, loaded>>

prevPage ==
    IF PrevBlocked
    THEN Rejected("prevPage", NoPage)
    ELSE IF ~HasPage(Decremented(currentPage))
    THEN Thrown("prevPage", Decremented(currentPage))
    ELSE \E fate \in playPageFlipSound :
         IF SoundThrows(fate)
         THEN FlipAborted("prevPage", fate)
         ELSE
         /\ Room
         /\ isAnimating' = TRUE
         /\ currentPage' = Decremented(currentPage)
         /\ unflipping' = unflipping \cup {Decremented(currentPage)}
         /\ flipped' = flipped \ {Decremented(currentPage)}
         /\ timers' \in ScheduleAll({timers},
                  <<Timer("prevDone", FlipDelay, Decremented(currentPage), 0)>>)
         /\ last' = Call("prevPage", NoPage, TRUE, SoundFx(fate) \cup DustFx, NoPage)
         /\ trip' = IF trip.phase = "there" THEN TripPhase("backward") ELSE TripOff
         /\ UNCHANGED <<totalPages, animationsEnabled, stored, flipping, view,
                        tocActive, celebrationShown, badgeRevealed, celebrations,
                        revealed, loaded>>

\* the callback prevPage scheduled
prevPageDone ==
    /\ Quiet
    /\ Due("prevDone")
    /\ LET t == Head(timers)
       IN /\ unflipping' = unflipping \ {t.page}
          /\ view' = NavView(currentPage, view)
          /\ celebrationShown' = ShownAfter(currentPage)
          /\ tocActive' = TocAfter(currentPage)
          /\ revealed' = RevealedAfter(currentPage)
          /\ timers' \in ScheduleAll({Tail(timers)},
                                     CompletionTimers(currentPage)
                                         \o RevealTimersOf(currentPage))
          /\ isAnimating' = FALSE
          /\ last' = Call("prevPageDone", t.page, TRUE, {}, currentPage)
          /\ trip' = IF trip.phase = "backward" THEN TripPhase("back") ELSE TripOff
    /\ UNCHANGED <<totalPages, currentPage, animationsEnabled, stored, flipped,
                   flipping, badgeRevealed, celebrations, loaded>>

JumpFlipped_Inclusive(n) ==
    IF Gt(n, currentPage)
    THEN flipped \cup {i \in Pages : currentPage <= i /\ i <= n}
    ELSE flipped \ {i \in Pages : Ge(i, n) /\ Le(i, currentPage)}

\* the pages goToPage(n) tags: forward adds 'flipped' to currentPage .. n-1,
\* backward removes it from n .. currentPage-1
JumpFlipped(n) ==
    IF Gt(n, currentPage)
    THEN flipped \cup {i \in Pages : currentPage <= i /\ i < n}
    ELSE flipped \ {i \in Pages : Ge(i, n) /\ Le(i, Plus(currentPage, 0 - 1))}

\* goToPage(n) left by an exception of playPageFlipSound, after the pages
\* were tagged
JumpAborted(n, fate) ==
    /\ flipped' = JumpFlipped(n)
    /\ last' = Call("goToPage", n, TRUE, SoundFx(fate) \cup {"Error"}, NoPage)
    /\ trip' = TripOff
    /\ UNCHANGED <<totalPages, currentPage, isAnimating, animationsEnabled,
                   stored, flipping, unflipping, view, tocActive,
                   celebrationShown, badgeRevealed, celebrations, revealed,
                   timers, loaded>>

goToPage(n) ==
    IF JumpBlocked(n)
    THEN Rejected("goToPage", n)
    ELSE IF JumpInvalid(n)
    THEN Rejected("goToPage", n)
    ELSE \E fate \in playPageFlipSound :
         IF SoundThrows(fate)
         THEN JumpAborted(n, fate)
         ELSE
         /\ Room
         /\ flipped' = JumpFlipped(n)
         /\ currentPage' = n
         /\ view' = NavView(n, view)
         /\ celebrationShown' = ShownAfter(n)
         /\ tocActive' = TocAfter(n)
         /\ timers' \in ScheduleAll({timers},
                                    CompletionTimers(n)
                                        \o <<Timer("goToReveal", JumpRevealMs, n, 0)>>)
         /\ last' = Call("goToPage", n, TRUE, SoundFx(fate), NoPage)
         /\ trip' = TripOff
         /\ UNCHANGED <<totalPages, isAnimating, animationsEnabled, stored,
                        flipping, unflipping, badgeRevealed, celebrations,
                        revealed, loaded>>

\* the callback goToPage scheduled: revealPageContent(this.currentPage)
goToPageReveal ==
    /\ Quiet
    /\ Due("goToReveal")
    /\ revealed' = RevealedAfter(currentPage)
    /\ timers' \in ScheduleAll({Tail(timers)}, RevealTimersOf(currentPage))
    /\ last' = Call("goToPageReveal", Head(timers).page, TRUE, {}, currentPage)
    /\ UNCHANGED <<trip, totalPages, currentPage, isAnimating, animationsEnabled, stored,
                   flipped, flipping, unflipping, view, tocActive,
                   celebrationShown, badgeRevealed, celebrations, loaded>>

(* ---- other callbacks and inputs ---------------------------------------- *)
\* one re-mark of revealPageContent
revealItem ==
    /\ Quiet
    /\ Due("revealItem")
    /\ revealed' = revealed \cup {<<Head(timers).page, Head(timers).item>>}
    /\ timers' = Tail(timers)
    /\ last' = Call("revealItem", Head(timers).page, TRUE, {}, NoPage)
    /\ UNCHANGED <<trip, totalPages, currentPage, isAnimating, animationsEnabled, stored,
                   flipped, flipping, unflipping, view, tocActive,
                   celebrationShown, badgeRevealed, celebrations, loaded>>

\* the callback checkCompletion scheduled; createCelebrationParticles spawns
\* only with animations enabled
celebrate ==
    /\ Quiet
    /\ Due("celebrate")
    /\ badgeRevealed' = TRUE
    /\ celebrations' = IF animationsEnabled THEN celebrations + 1 ELSE celebrations
    /\ timers' = Tail(timers)
    /\ last' = Call("celebrate", NoPage, TRUE,
                    IF animationsEnabled THEN {"celebration"} ELSE {}, NoPage)
    /\ UNCHANGED <<trip, totalPages, currentPage, isAnimating, animationsEnabled, stored,
                   flipped, flipping, unflipping, view, tocActive,
                   celebrationShown, revealed, loaded>>

toggleAnimations_Retimes ==
    /\ animationsEnabled' = ~animationsEnabled
    /\ stored' = (IF ~animationsEnabled THEN "true" ELSE "false")
    /\ timers' = [i \in DOMAIN timers |->
                     IF timers[i].kind \in {"nextDone", "prevDone"}
                     THEN [timers[i] EXCEPT !.delay = IF animationsEnabled THEN 0 ELSE FlipMs]
                     ELSE timers[i]]
    /\ last' = Call("toggleAnimations", NoPage, TRUE, {}, NoPage)
    /\ UNCHANGED <<trip, totalPages, currentPage, isAnimating, flipped, flipping,
                   unflipping, view, tocActive, celebrationShown, badgeRevealed,
                   celebrations, revealed, loaded>>

toggleAnimations_NoSave ==
    /\ animationsEnabled' = ~animationsEnabled
    /\ stored' = stored
    /\ last' = Call("toggleAnimations", NoPage, TRUE, {}, NoPage)
    /\ UNCHANGED <<trip, totalPages, currentPage, isAnimating, flipped, flipping,
                   unflipping, view, tocActive, celebrationShown, badgeRevealed,
                   celebrations, revealed, timers, loaded>>

toggleAnimations ==
    /\ animationsEnabled' = ~animationsEnabled
    /\ stored' = (IF ~animationsEnabled THEN "true" ELSE "false")
    /\ last' = Call("toggleAnimations", NoPage, TRUE, {}, NoPage)
    /\ UNCHANGED <<trip, totalPages, currentPage, isAnimating, flipped, flipping,
                   unflipping, view, tocActive, celebrationShown, badgeRevealed,
                   celebrations, revealed, timers, loaded>>

(* ---- input listeners (bindEvents) --------------------------------------- *)
\* the document's click listener: a click outside the sidebar and its toggle
\* closes the table of contents
ClosedByClick == tocOpen' = FALSE

\* the listeners of the two navigation buttons
nextBtnClick ==
    /\ nextPage
    /\ input' = Event("nextBtn", "", 0, 0, <<"nextPage">>)
    /\ ClosedByClick
    /\ UNCHANGED soundEnabled

prevBtnClick ==
    /\ prevPage
    /\ input' = Event("prevBtn", "", 0, 0, <<"prevPage">>)
    /\ ClosedByClick
    /\ UNCHANGED soundEnabled

\* the listener of a table-of-contents entry whose data-page parses to n:
\* goToPage(n), then closeTOC
tocItemClick(n) ==
    /\ goToPage(n)
    /\ input' = Event("tocItem", "", n, 0, <<"goToPage">>)
    /\ tocOpen' = FALSE
    /\ UNCHANGED soundEnabled

\* the listener of the animation toggle; a is 1 when the step before was also
\* a click on the toggle
animToggleClick ==
    /\ toggleAnimations
    /\ input' = Event("animToggle", "", IF input.kind = "animToggle" THEN 1 ELSE 0,
                       0, <<>>)
    /\ ClosedByClick
    /\ UNCHANGED soundEnabled

\* an input event that is turned into no command
Ignored(op) == Rejected(op, NoPage)

\* the call a listener makes for the commands it issues (none or one)
Issue(cmds, op) ==
    IF cmds = <<>> THEN Ignored(op)
    ELSE IF Head(cmds) = "nextPage" THEN nextPage
    ELSE prevPage

Abs(x) == IF x < 0 THEN 0 - x ELSE x

SwipeCommands_Mirrored(startX, endX) ==
    LET diff == startX - endX
    IN IF Abs(diff) > SwipeThreshold
       THEN (IF diff > 0 THEN <<"prevPage">> ELSE <<"nextPage">>)
       ELSE <<>>

\* handleSwipe(startX, endX)
SwipeCommands(startX, endX) ==
    LET diff == startX - endX
    IN IF Abs(diff) > SwipeThreshold
       THEN (IF diff > 0 THEN <<"nextPage">> ELSE <<"prevPage">>)
       ELSE <<>>

\* screenX of the touches tried: differences on both sides of the threshold
TouchXs == {0, SwipeThreshold, SwipeThreshold + 1}

\* touchend at screenX = e of a touch that started at screenX = s: the touchstart
\* listener only stored s
touchend(s, e) ==
    /\ Issue(SwipeCommands(s, e), "handleSwipe")
    /\ input' = Event("swipe", "", s, e, SwipeCommands(s, e))
    /\ tocOpen' = tocOpen
    /\ UNCHANGED soundEnabled

\* where a click on a page may land: on an interactive descendant; outside
\* .page-content; in a .page-content that does not overflow; in one that
\* overflows and has content below the fold; in one that overflows and is
\* scrolled to its bottom
ClickTargets == {"interactive", "margin", "fits", "more", "bottom"}

\* the click listener of page number index
ClickCommands(index, target) ==
    IF target = "interactive" THEN <<>>
    ELSE IF target \in {"more", "bottom"} THEN <<>>
    ELSE IF StrictEq(index, currentPage) /\ Lt(currentPage, totalPages - 1)
    THEN <<"nextPage">>
    ELSE <<>>

pageClick(index, target) ==
    /\ Issue(ClickCommands(index, target), "pageClick")
    /\ input' = Event("click", target, index, 0, ClickCommands(index, target))
    /\ ClosedByClick
    /\ UNCHANGED soundEnabled

Keys == {"ArrowRight", " ", "ArrowLeft", "Escape", "Enter"}

KeyCommands_EscapeBack(key) ==
    IF key \in {"ArrowRight", " "} THEN <<"nextPage">>
    ELSE IF key \in {"ArrowLeft", "Escape"} THEN <<"prevPage">>
    ELSE <<>>

\* the keydown listener
KeyCommands(key) ==
    IF key \in {"ArrowRight", " "} THEN <<"nextPage">>
    ELSE IF key = "ArrowLeft" THEN <<"prevPage">>
    ELSE <<>>

\* Escape calls closeTOC
keydown(key) ==
    /\ Issue(KeyCommands(key), "keydown")
    /\ input' = Event("key", key, 0, 0, KeyCommands(key))
    /\ tocOpen' = (IF key = "Escape" THEN FALSE ELSE tocOpen)
    /\ UNCHANGED soundEnabled

\* where a wheel event may land: in an overflowing .page-content with content
\* left to scroll in the direction of the wheel, in one scrolled to its
\* boundary in that direction, or on a page without scrollable content
WheelTargets == {"inside", "boundary", "plain"}

\* deltaY of the wheel events tried
WheelDeltas == {0 - 51, 50, 51, 100}

WheelCommands_NoContentCheck(target, deltaY) ==
    IF deltaY > 50 THEN <<"nextPage">>
    ELSE IF deltaY < 0 - 50 THEN <<"prevPage">>
    ELSE <<>>

\* handleScroll: inside .page-content the browser scrolls, elsewhere the event
\* is ignored; no page is turned
WheelCommands(target, deltaY) == <<>>

\* handleScroll never calls e.preventDefault()
WheelPrevented(target, deltaY) == FALSE

\* b is 1 when the listener called preventDefault
wheel(target, deltaY) ==
    /\ Issue(WheelCommands(target, deltaY), "handleScroll")
    /\ input' = Event("wheel", target, deltaY,
                       IF WheelPrevented(target, deltaY) THEN 1 ELSE 0,
                       WheelCommands(target, deltaY))
    /\ tocOpen' = tocOpen
    /\ UNCHANGED soundEnabled

\* the listener of the sidebar's toggle button: toggleTOC
tocToggleClick ==
    /\ Ignored("toggleTOC")
    /\ input' = Event("tocToggle", "", 0, 0, <<>>)
    /\ tocOpen' = ~tocOpen
    /\ UNCHANGED soundEnabled

\* toggleSound: a public method of window.bookPortfolio, bound to no listener
toggleSound ==
    /\ soundEnabled' = ~soundEnabled
    /\ last' = Call("toggleSound", NoPage, TRUE, {}, NoPage)
    /\ input' = NoInput
    /\ UNCHANGED <<navState, trip, tocOpen>>

Targets == (0 - 1) .. totalPages

Next ==
    \/ LoaderDone
    \/ nextBtnClick
    \/ prevBtnClick
    \/ \E n \in Targets : tocItemClick(n)
    \/ nextPageDone
    \/ prevPageDone
    \/ goToPageReveal
    \/ revealItem
    \/ celebrate
    \/ animToggleClick

Spec == Init /\ [][Next]_vars

\* goToPage with the NaN the table-of-contents handler passes when an entry's
\* data-page is no integer
goToPageNaN == tocItemClick(NaN)

NextNaN == Next \/ goToPageNaN

\* sessions that also use touch, page clicks, the keyboard and the wheel
NextInput ==
    \/ LoaderDone
    \/ \E s \in TouchXs, e \in TouchXs : touchend(s, e)
    \/ \E i \in Pages, t \in ClickTargets : pageClick(i, t)
    \/ \E k \in Keys : keydown(k)
    \/ \E t \in WheelTargets, d \in WheelDeltas : wheel(t, d)
    \/ tocToggleClick
    \/ animToggleClick
    \/ nextPageDone
    \/ prevPageDone
    \/ revealItem
    \/ celebrate

SpecInput == Init /\ [][NextInput]_vars

SpecNaN == Init /\ [][NextNaN]_vars

\* sessions in which the sound is switched on and off
NextSound ==
    \/ LoaderDone
    \/ nextBtnClick
    \/ prevBtnClick
    \/ \E n \in Targets : tocItemClick(n)
    \/ nextPageDone
    \/ prevPageDone
    \/ goToPageReveal
    \/ revealItem
    \/ celebrate
    \/ toggleSound

SpecSound == Init /\ [][NextSound]_vars

TypeOK ==
    /\ totalPages \in 1 .. MaxPages
    /\ isAnimating \in BOOLEAN
    /\ animationsEnabled \in BOOLEAN
    /\ soundEnabled \in BOOLEAN
    /\ flipped \subseteq Pages
    /\ flipping \subseteq Pages
    /\ unflipping \subseteq Pages
    /\ tocActive \subseteq Pages
    /\ revealed \subseteq (Pages \X Frags)


(* ======================================================================== *)
(* Claims                                                                   *)
(* ======================================================================== *)

\* a goToPage callback is still pending
JumpPending == \E i \in 1 .. Len(timers) : timers[i].kind = "goToReveal"

CountOf(q, kind) == Cardinality({i \in 1 .. Len(q) : q[i].kind = kind})

\* C1: with only integer targets, currentPage stays within 0 .. totalPages-1 in
\* every reachable state, and no step of nextPage or prevPage wraps: a step of
\* nextPage or its callback leaves currentPage or adds one, a step of prevPage
\* or its callback leaves it or subtracts one, and every other step but an
\* accepted goToPage leaves it.
C1_InRangeNoWrap ==
    /\ [](currentPage \in 0 .. (totalPages - 1))
    /\ [][/\ last'.op \in {"nextPage", "nextPageDone"}
             => currentPage' \in {currentPage, currentPage + 1}
          /\ last'.op \in {"prevPage", "prevPageDone"}
             => currentPage' \in {currentPage, currentPage - 1}
          /\ last'.op \notin {"nextPage", "nextPageDone", "prevPage",
                              "prevPageDone", "goToPage"}
             => currentPage' = currentPage]_vars

\* the last page was reached by a committed nextPage and left by prevPage
C1_Witness ==
    /\ totalPages = MaxPages
    /\ last.op = "prevPage" /\ last.ok
    /\ last.from = totalPages - 1
    /\ celebrationShown

\* C2: a nextPage, prevPage or goToPage issued while isAnimating is true
\* returns at its guard: nothing of the state changes (currentPage,
\* isAnimating, page tags, views, timers) and no effect is triggered.
C2_RejectedWhileAnimating ==
    [][(isAnimating /\ last'.op \in Requests)
        => (~last'.ok /\ last'.fx = {} /\ UNCHANGED navState)]_vars

\* a goToPage to another, valid page was rejected during a transition
C2_Witness ==
    /\ isAnimating
    /\ last.op = "goToPage" /\ ~last.ok
    /\ HasPage(last.arg) /\ last.arg # currentPage

\* C3 (as claimed): a nextPage issued while the timer of an accepted goToPage
\* is pending is rejected and changes nothing.
C3_NextRejectedDuringJump ==
    [][(JumpPending /\ last'.op = "nextPage")
        => (~last'.ok /\ UNCHANGED navState)]_vars

\* C4: a nextPage accepted at an inner page k and run to completion, directly
\* followed by a prevPage run to completion, restores currentPage, the set of
\* flipped pages and the dependent views (buttons, indicator, progress, live
\* region, table-of-contents marker) to what they were at k.
C4_RoundTrip ==
    (trip.phase = "back" /\ 0 < trip.k /\ trip.k < totalPages - 1)
        => /\ currentPage = trip.k
           /\ flipped = trip.flipped
           /\ view = trip.view
           /\ tocActive = trip.toc

\* a round trip from an inner page has completed
C4_Witness ==
    /\ trip.phase = "back" /\ 0 < trip.k /\ trip.k < totalPages - 1
    /\ last.op = "prevPageDone"

\* C5: nextPage on the last page and prevPage on the first page return at
\* their guard: nothing of the state changes, no timer is scheduled, no effect
\* is triggered and no error is thrown.
C5_BoundaryNoOps ==
    [][(\/ (last'.op = "nextPage" /\ currentPage = totalPages - 1)
        \/ (last'.op = "prevPage" /\ currentPage = 0))
        => (~last'.ok /\ last'.fx = {} /\ UNCHANGED navState)]_vars

\* nextPage was rejected on the last page of a book of several pages, with no
\* transition in flight
C5_Witness ==
    /\ ~isAnimating /\ totalPages > 1
    /\ currentPage = totalPages - 1
    /\ last.op = "nextPage" /\ ~last.ok

\* C6 (as claimed): goToPage(n) with n no valid page index (n < 0,
\* n >= totalPages, NaN) or n equal to currentPage changes nothing.
C6_InvalidJumpNoOp ==
    [][(last'.op = "goToPage" /\ (~HasPage(last'.arg) \/ last'.arg = currentPage))
        => (~last'.ok /\ UNCHANGED navState)]_vars

\* C7: a nextPage accepted with animations disabled spawns no dust and
\* schedules its completion with delay 0; and the celebration callback spawns
\* no particles while animations are disabled.
C7_DisabledNoDelayNoDecoration ==
    [][/\ (last'.op = "nextPage" /\ last'.ok /\ ~animationsEnabled)
          => /\ "dust" \notin last'.fx
             /\ CountOf(timers', "nextDone") = 1
             /\ \A i \in 1 .. Len(timers') :
                    timers'[i].kind = "nextDone" => timers'[i].delay = 0
       /\ (last'.op = "celebrate" /\ ~animationsEnabled)
          => /\ "celebration" \notin last'.fx
             /\ celebrations' = celebrations]_vars

\* nextPage was just accepted with animations disabled
C7_Witness ==
    /\ last.op = "nextPage" /\ last.ok
    /\ ~animationsEnabled
    /\ isAnimating

\* C8: an accepted goToPage(n) at currentPage = c is one transition: it sets
\* currentPage to n and registers exactly one callback; forward (n > c) it adds
\* 'flipped' to exactly the pages c .. n-1, backward it removes 'flipped' from
\* exactly the pages n .. c-1, and it changes no other tag of any page.
C8_JumpTagsRange ==
    [][(last'.op = "goToPage" /\ last'.ok)
        => /\ currentPage' = last'.arg
           /\ CountOf(timers', "goToReveal") = CountOf(timers, "goToReveal") + 1
           /\ flipping' = flipping
           /\ unflipping' = unflipping
           /\ IF last'.arg > currentPage
              THEN /\ flipped' \ flipped = currentPage .. (last'.arg - 1)
                   /\ flipped \ flipped' = {}
              ELSE /\ flipped \ flipped' = last'.arg .. (currentPage - 1)
                   /\ flipped' \ flipped = {}]_vars

\* a forward jump over more than one page was just accepted
C8_Witness ==
    /\ last.op = "goToPage" /\ last.ok
    /\ last.arg >= last.from + 2
    /\ currentPage = last.arg

\* C9 (as claimed): the callback of an accepted goToPage(n) reveals page n.
C9_JumpRevealsTarget ==
    last.op = "goToPageReveal" => last.rev = last.arg

Commits ==
    \/ last'.op \in {"nextPageDone", "prevPageDone"}
    \/ last'.op = "goToPage" /\ last'.ok

C13_CompletionOnce ==
    /\ [](celebrations <= 1 /\ CountOf(timers, "celebrate") <= 1)
    /\ [][/\ celebrationShown
             => /\ celebrationShown'
                /\ CountOf(timers', "celebrate") <= CountOf(timers, "celebrate")
          /\ (~celebrationShown /\ Commits /\ currentPage' = totalPages - 1)
             => /\ celebrationShown'
                /\ CountOf(timers', "celebrate") = 1
          /\ (~celebrationShown /\ ~(Commits /\ currentPage' = totalPages - 1))
             => /\ ~celebrationShown'
                /\ CountOf(timers', "celebrate") = 0]_vars

\* the last page is reached again after the celebration has run
C13_Witness ==
    /\ last.op = "nextPageDone"
    /\ currentPage = totalPages - 1
    /\ badgeRevealed /\ celebrations = 1
    /\ CountOf(timers, "celebrate") = 0

\* the one command a listener issued was handed to the entry point of that
\* name, and nothing else ran
Issued(cmd) == input'.cmds = <<cmd>> /\ last'.op = cmd

\* the listener issued no command and left the navigation state alone
IssuedNone ==
    /\ input'.cmds = <<>>
    /\ last'.op \notin Requests
    /\ UNCHANGED navState

\* C14: a touch from screenX s to screenX e with |s - e| above the threshold
\* of 50 issues exactly one command, nextPage when s > e and prevPage when
\* s < e; with |s - e| <= 50 it issues none and changes no state.
C14_SwipeArbitration ==
    [][input'.kind = "swipe"
        => IF Abs(input'.a - input'.b) > 50
           THEN Issued(IF input'.a > input'.b THEN "nextPage" ELSE "prevPage")
           ELSE IssuedNone]_vars

\* a rightward swipe one pixel over the threshold was accepted as prevPage
C14_Witness ==
    /\ input.kind = "swipe"
    /\ input.b - input.a = 51
    /\ last.op = "prevPage" /\ last.ok

\* C15 (as claimed): a click on the current page outside interactive
\* descendants and outside a scrollable region with content below the fold
\* issues nextPage (which is a no-op on the last page), also when it lands in
\* an overflowing region scrolled to its bottom; a click on an interactive
\* descendant or on another page issues nothing.
C15_ClickArbitration ==
    [][input'.kind = "click"
        => /\ (input'.a = currentPage /\ input'.what \in {"margin", "fits", "bottom"})
              => (Issued("nextPage") \/ currentPage = totalPages - 1)
           /\ (input'.what = "interactive" \/ input'.a # currentPage)
              => IssuedNone]_vars

\* C16: ArrowRight and Space each issue exactly nextPage, ArrowLeft issues
\* exactly prevPage, and Escape issues no command, closes the table of
\* contents and leaves currentPage, isAnimating, the page tags and the rest of
\* the navigation state unchanged.
C16_KeyArbitration ==
    [][input'.kind = "key"
        => /\ input'.what \in {"ArrowRight", " "} => Issued("nextPage")
           /\ input'.what = "ArrowLeft" => Issued("prevPage")
           /\ input'.what = "Escape" => (IssuedNone /\ ~tocOpen')]_vars

\* Escape closed the open table of contents while a page was turning
C16_Witness ==
    /\ input.kind = "key" /\ input.what = "Escape"
    /\ input.was.open /\ ~tocOpen
    /\ isAnimating

\* the delta above which the earlier handleScroll turned the page
WheelThreshold == 50

\* a wheel event at the boundary of scrollable content, beyond the threshold
BoundaryHit(ev) ==
    ev.kind = "wheel" /\ ev.what = "boundary" /\ Abs(ev.a) > WheelThreshold

\* C17 (as claimed): a first wheel event at the content boundary issues no
\* command, and the second such event in the same direction issues nextPage
\* (downward) or prevPage (upward).
C17_TwoHitBoundary ==
    [][/\ (BoundaryHit(input') /\ ~BoundaryHit(input)) => IssuedNone
       /\ (BoundaryHit(input) /\ BoundaryHit(input')
               /\ (input.a > 0) = (input'.a > 0))
          => Issued(IF input'.a > 0 THEN "nextPage" ELSE "prevPage")]_vars

\* C18 (as claimed): on a page without scrollable content a wheel event with a
\* delta up to the threshold issues no command, and one with a delta above
\* it, arriving outside the window of an earlier wheel event, issues exactly
\* nextPage.
C18_WheelOnPlainPage ==
    [][(input'.kind = "wheel" /\ input'.what = "plain")
        => /\ Abs(input'.a) <= WheelThreshold => IssuedNone
           /\ (input'.a > WheelThreshold /\ input.kind # "wheel")
              => Issued("nextPage")]_vars

\* the boolean restoreAnimationPreference reads from a stored value
StoredFlag(v) == v = "true"

\* startup, and what every toggle does: animationsEnabled is the stored
\* boolean when the key is present and true when it is absent; a toggle flips
\* the flag and writes it; from the first toggle on the stored value is the flag
PreferenceKept ==
    /\ last.op = "init"
          => animationsEnabled = (IF stored = "absent" THEN TRUE ELSE StoredFlag(stored))
    /\ input'.kind = "animToggle"
          => /\ animationsEnabled' = ~animationsEnabled
             /\ stored' \in {"true", "false"}
             /\ StoredFlag(stored') = animationsEnabled'
    /\ stored' # "absent" => StoredFlag(stored') = animationsEnabled'

\* the step is the second of two consecutive toggles
SecondToggle == input.kind = "animToggle" /\ input'.kind = "animToggle"

\* C19 (as claimed): startup and toggles as above, and two consecutive
\* toggles restore both animationsEnabled and the stored value.
C19_TogglesRestoreBoth ==
    [][/\ PreferenceKept
       /\ SecondToggle => /\ animationsEnabled' = input.was.enabled
                           /\ stored' = input.was.stored]_vars

\* C19 (amended): startup and toggles as above, and two consecutive toggles
\* restore animationsEnabled, and restore the stored value when it was 'true'
\* or 'false' before them; otherwise (the key was absent) they leave the
\* restored flag stored as 'true' or 'false'.
C19_TogglesRestoreFlag ==
    [][/\ PreferenceKept
       /\ SecondToggle => /\ animationsEnabled' = input.was.enabled
                           /\ stored' = (IF input.was.stored \in {"true", "false"}
                                          THEN input.was.stored
                                          ELSE IF input.was.enabled THEN "true"
                                          ELSE "false")]_vars

\* two consecutive toggles have run and the second wrote 'true' over the
\* 'false' of the first
C19_Witness ==
    /\ input.kind = "animToggle" /\ input.a = 1
    /\ input.was.stored = "false"
    /\ stored = "true" /\ animationsEnabled

\* pending re-marks of the fragments of page p
RevealsPending(q, p) ==
    Cardinality({i \in 1 .. Len(q) : q[i].kind = "revealItem" /\ q[i].page = p})

\* C20: a nextPage accepted at currentPage = k sets isAnimating, tags page k
\* 'flipping' and 'flipped' and leaves currentPage at k; until its callback
\* runs no step changes currentPage or clears isAnimating; the callback
\* clears 'flipping' on page k, sets currentPage to exactly k+1, updates the
\* views and the table of contents for k+1, starts the reveal of page k+1 and
\* clears isAnimating.
C20_NextPageLifecycle ==
    [][/\ (last'.op = "nextPage" /\ last'.ok)
          => /\ isAnimating'
             /\ currentPage \in flipping' /\ currentPage \in flipped'
             /\ currentPage' = currentPage
             /\ CountOf(timers, "nextDone") = 0
             /\ \E i \in 1 .. Len(timers') :
                    timers'[i].kind = "nextDone" /\ timers'[i].page = currentPage
       /\ (CountOf(timers, "nextDone") > 0 /\ last'.op # "nextPageDone")
          => /\ currentPage' = currentPage
             /\ isAnimating'
       /\ last'.op = "nextPageDone"
          => LET k == last'.arg
             IN /\ currentPage = k
                /\ currentPage' = k + 1
                /\ k \notin flipping' /\ k \in flipped'
                /\ ~isAnimating'
                /\ view'.indicator = PageName(k + 1)
                /\ view'.progress = k + 2
                /\ ~view'.prevDisabled
                /\ view'.nextDisabled = (k + 1 = totalPages - 1)
                /\ tocActive' = {k + 1}
                /\ last'.rev = k + 1
                /\ \A f \in Frags : <<k + 1, f>> \notin revealed'
                /\ RevealsPending(timers', k + 1)
                       = RevealsPending(timers, k + 1) + FragsPerPage]_vars

\* a nextPage has committed on an inner page and handed it to the reveal
C20_Witness ==
    /\ last.op = "nextPageDone"
    /\ currentPage = last.arg + 1
    /\ currentPage < totalPages - 1
    /\ last.rev = currentPage
    /\ ~isAnimating

\* a completion callback of nextPage or prevPage, or the callback of goToPage,
\* is pending
FlightPending(q) ==
    \E i \in 1 .. Len(q) : q[i].kind \in {"nextDone", "prevDone", "goToReveal"}

\* C21 (as claimed): an accepted prevPage at currentPage = k leaves currentPage
\* at k; while the transition is in flight the page indicator names
\* currentPage; the callback sets currentPage to k-1.
C21_PrevDecrementsOnCompletion ==
    [][/\ (last'.op = "prevPage" /\ last'.ok)
          => /\ currentPage' = currentPage
             /\ view'.indicator = PageName(currentPage')
       /\ last'.op = "prevPageDone"
          => currentPage' = currentPage - 1]_vars

\* C22 (as claimed): an accepted goToPage(n) sets isAnimating, registers one
\* callback and leaves currentPage at its old value until that callback runs.
C22_JumpCommitsOnTimer ==
    [][(last'.op = "goToPage" /\ last'.ok)
        => /\ isAnimating'
           /\ currentPage' = currentPage
           /\ CountOf(timers', "goToReveal") = 1]_vars

\* C23 (as claimed): whenever a callback registered by an accepted navigation
\* request is pending, isAnimating is true, and at most one such callback is
\* pending.
C23_FlagCoversPendingTimers ==
    FlightPending(timers)
        => /\ isAnimating
           /\ CountOf(timers, "nextDone") + CountOf(timers, "prevDone")
                  + CountOf(timers, "goToReveal") <= 1

\* C24: a nextPage or prevPage issued right after an accepted nextPage or
\* prevPage, with no callback run between the two, is rejected and changes
\* nothing, whatever the completion delay; the accepted one moves currentPage
\* by exactly one page (nextPage in its callback, prevPage at acceptance).
C24_BackToBackOneAccepted ==
    [][/\ (last.op \in {"nextPage", "prevPage"} /\ last.ok
               /\ last'.op \in {"nextPage", "prevPage"})
          => /\ ~last'.ok
             /\ UNCHANGED navState
       /\ last'.op = "nextPageDone" => currentPage' = currentPage + 1
       /\ last'.op = "prevPageDone" => currentPage' = currentPage
       /\ (last'.op = "prevPage" /\ last'.ok) => currentPage' = currentPage - 1
       /\ (last'.op = "nextPage" /\ last'.ok) => currentPage' = currentPage]_vars

\* with animations disabled a key press asked for the next page while the
\* callback of the request before it, registered with delay 0, had not run
C24_Witness ==
    /\ input.kind = "key"
    /\ last.op = "nextPage" /\ ~last.ok
    /\ isAnimating
    /\ timers # <<>>
    /\ Head(timers).kind \in {"nextDone", "prevDone"}
    /\ Head(timers).delay = 0

\* C25 (as claimed): isAnimating is never stuck: in every state with
\* isAnimating = true the completion callback that clears it is pending, so
\* that firing the pending timers ends the transition.
C25_NeverStuck ==
    isAnimating
        => CountOf(timers, "nextDone") + CountOf(timers, "prevDone") >= 1

\* C26 (as claimed): the commit and the post-commit sequence of an accepted
\* request come before the commit of any request accepted after it: no step
\* writes currentPage while the callback of an earlier accepted goToPage,
\* which invokes the reveal for it, is still pending.
C26_CommitsInAcceptanceOrder ==
    [][currentPage' # currentPage => ~JumpPending]_vars

\* the completion callbacks of nextPage and prevPage that are pending
FlightTimers(q) == SelectSeq(q, LAMBDA t : t.kind \in {"nextDone", "prevDone"})

\* C27: a toggle of the animations while a nextPage or prevPage is in flight
\* leaves the pending completion callback as registered (same delay, same
\* page), leaves isAnimating, currentPage and the page tags alone, and
\* registers and cancels nothing; an accepted nextPage or prevPage registers
\* its callback with the delay of the preference it finds: 800 when enabled, 0
\* when disabled.
C27_ToggleMidFlight ==
    [][/\ (input'.kind = "animToggle" /\ isAnimating)
          => /\ timers' = timers
             /\ isAnimating'
             /\ currentPage' = currentPage
             /\ <<flipped', flipping', unflipping'>> = <<flipped, flipping, unflipping>>
       /\ (last'.op \in {"nextPage", "prevPage"} /\ last'.ok)
          => /\ FlightTimers(timers) = <<>>
             /\ Len(FlightTimers(timers')) = 1
             /\ FlightTimers(timers')[1].delay = (IF animationsEnabled THEN 800 ELSE 0)]_vars

\* the animations were switched off while a page was turning forward, and the
\* pending completion still has its delay of 800
C27_Witness ==
    /\ input.kind = "animToggle"
    /\ ~animationsEnabled
    /\ isAnimating
    /\ timers # <<>>
    /\ Head(timers).kind = "nextDone"
    /\ Head(timers).delay = 800

\* C28: a wheel event inside a page's scrollable content that still has
\* content to scroll in its direction issues no navigation command, is not
\* default-prevented, and leaves currentPage, isAnimating and every pending
\* timer (no debounce timer is started) unchanged.
C28_WheelInsideContent ==
    [][(input'.kind = "wheel" /\ input'.what = "inside")
        => /\ IssuedNone
           /\ input'.b = 0
           /\ currentPage' = currentPage
           /\ isAnimating' = isAnimating
           /\ timers' = timers]_vars

\* the wheel was turned down hard inside scrollable content while a turn to
\* the next page was possible
C28_Witness ==
    /\ input.kind = "wheel" /\ input.what = "inside"
    /\ input.a = 100 /\ input.b = 0
    /\ ~isAnimating
    /\ currentPage < totalPages - 1

\* position of the last pending re-mark of fragment f of page p
LastMark(q, p, f) ==
    CHOOSE n \in 1 .. Len(q) :
        /\ q[n].kind = "revealItem" /\ q[n].page = p /\ q[n].item = f
        /\ \A m \in (n + 1) .. Len(q) :
               ~(q[m].kind = "revealItem" /\ q[m].page = p /\ q[m].item = f)

\* C29: a step that invokes revealPageContent(p) for a page p clears the
\* marker on every fragment of p and on nothing else, marks no fragment itself,
\* and registers one re-mark per fragment of p and none for another page, with
\* delay 50 + 100 i for fragment i, so that the re-mark of fragment i runs
\* before that of fragment j whenever i < j; a re-mark marks its one fragment.
C29_RevealOrder ==
    [][/\ (last'.rev # NoPage /\ HasPage(last'.rev))
          => LET p == last'.rev
             IN /\ revealed' = revealed \ {<<p, f>> : f \in Frags}
                /\ \A q \in Pages :
                       RevealsPending(timers', q)
                           = RevealsPending(timers, q) + (IF q = p THEN FragsPerPage ELSE 0)
                /\ \A f \in Frags :
                       timers'[LastMark(timers', p, f)].delay = 50 + 100 * f
                /\ \A f, g \in Frags :
                       f < g => LastMark(timers', p, f) < LastMark(timers', p, g)
       /\ last'.op = "revealItem"
          => /\ revealed' = revealed \cup {<<Head(timers).page, Head(timers).item>>}
             /\ timers' = Tail(timers)]_vars

\* the end of the splash revealed the cover again while re-marks of an
\* earlier reveal of the cover were still pending
C29_Witness ==
    /\ last.op = "loaderDone" /\ last.rev = 0
    /\ RevealsPending(timers, 0) > FragsPerPage

\* C30: once the splash has ended and every registered callback has run,
\* every fragment of the current page carries the 'revealed' marker.
C30_RevealConverges ==
    (loaded /\ timers = <<>>)
        => \A f \in Frags : <<currentPage, f>> \in revealed

\* all callbacks have run after the cover was revealed a second time by a
\* prevPage back to it
C30_Witness ==
    /\ loaded /\ timers = <<>>
    /\ last.op = "revealItem" /\ last.arg = 0
    /\ currentPage = 0
    /\ flipped = {} /\ celebrationShown
    /\ \A f \in Frags : <<0, f>> \in revealed

\* the request of this step called play() and the promise was rejected
SoundRejected == last'.op \in Requests /\ "soundRejected" \in last'.fx

\* C31: a rejected play() never blocks navigation: the request that made the
\* call runs to its end, and every request that passes its guards leaves the
\* same page, tags, views, flag and completion timer whatever became of the
\* sound; a request stopped at its guards has not touched the sound
C31_SoundNeverBlocks ==
    [][/\ SoundRejected => (last'.ok /\ "Error" \notin last'.fx)
       /\ (last'.op \in Requests /\ ~last'.ok)
          => (last'.fx = {} /\ UNCHANGED navState)
       /\ (last'.op = "nextPage" /\ last'.ok)
          => /\ isAnimating' /\ currentPage' = currentPage
             /\ flipping' = flipping \cup {currentPage}
             /\ flipped' = flipped \cup {currentPage}
             /\ unflipping' = unflipping
             /\ view' = view /\ tocActive' = tocActive
             /\ CountOf(timers', "nextDone") = 1
       /\ (last'.op = "prevPage" /\ last'.ok)
          => /\ isAnimating' /\ currentPage' = currentPage - 1
             /\ unflipping' = unflipping \cup {currentPage - 1}
             /\ flipped' = flipped \ {currentPage - 1}
             /\ flipping' = flipping
             /\ view' = view /\ tocActive' = tocActive
             /\ CountOf(timers', "prevDone") = 1
       /\ (last'.op = "goToPage" /\ last'.ok)
          => /\ isAnimating' = isAnimating /\ currentPage' = last'.arg
             /\ flipped' = JumpFlipped(last'.arg)
             /\ flipping' = flipping /\ unflipping' = unflipping
             /\ view' = NavView(last'.arg, view)
             /\ tocActive' = TocAfter(last'.arg)
             /\ CountOf(timers', "goToReveal")
                  = CountOf(timers, "goToReveal") + 1]_vars

\* nextPage went on after play() was rejected: the flag is set, the page is
\* tagged and the completion callback is pending
C31_Witness ==
    /\ soundEnabled
    /\ last.op = "nextPage" /\ last.ok /\ "soundRejected" \in last.fx
    /\ isAnimating
    /\ last.from \in flipping /\ last.from \in flipped
    /\ CountOf(timers, "nextDone") = 1

\* C32 (as claimed): in every state with isAnimating = false the pages tagged
\* 'flipped' are exactly the pages before currentPage
C32_FlippedStack ==
    ~isAnimating => flipped = {i \in Pages : Le(0, i) /\ Lt(i, currentPage)}

\* the pages that carry 'flipping' or 'unflipping'
Turning == flipping \cup unflipping

\* C33: at most one page carries 'flipping' or 'unflipping', and none does
\* unless isAnimating is true
C33_TurningTag ==
    /\ Cardinality(Turning) <= 1
    /\ Turning # {} => isAnimating
    /\ ~isAnimating => (flipping = {} /\ unflipping = {})

\* a backward flip in flight: the page just left by prevPage carries
\* 'unflipping', no page carries 'flipping'
C33_Witness ==
    /\ isAnimating
    /\ last.op = "prevPage" /\ last.ok
    /\ unflipping = {currentPage} /\ flipping = {}
    /\ currentPage = last.from - 1

====
